---- MODULE Spec2Model ----
(***************************************************************************)
(* A model of src/covid_data_utils.py: the five functions of the COVID-19  *)
(* data pipeline (load_covid_data, clean_covid_data, format_number,       *)
(* get_country_summary, generate_insights), each as a pure operator over   *)
(* small tables, and a state machine whose actions are calls of them.      *)
(*                                                                         *)
(* Reading of the source.  The file as stored carries transcription        *)
(* damage that no Python interpreter accepts (numerals written 1.000.000,  *)
(* "len(df);,", brackets closed by the wrong character, ".Columns").  The  *)
(* model reads every such token as the only thing it can stand for:        *)
(* 1.000 = 1000, 1.000.000 = 10^6, 1.000.000.000 = 10^9, ".Columns" =      *)
(* ".columns", and on lines 82 and 84 ".fill(method='fill')" / ".fill(0)"  *)
(* as the forward fill and the fill with 0 that the comments on lines 81   *)
(* and 83 state.                                                           *)
(*                                                                         *)
(* Representation.  A table (DataFrame) is a sequence of records, one per  *)
(* row, in row order.  A missing number is NaN, a missing date NaT.        *)
(* death_rate and vaccination_rate are percentages rounded to 2 decimals   *)
(* and are held in hundredths of a percent (50.0 % is 5000);               *)
(* cases_per_million is rounded to 0 decimals and is held as an integer.   *)
(***************************************************************************)
EXTENDS Integers, Sequences, FiniteSets, TLC

VARIABLES pc, op, arg, ret, reads

vars == <<pc, op, arg, ret, reads>>

-----------------------------------------------------------------------------
(* Values *)

\* numpy's NaN (a missing number); never a value of the data.
NaN == -1000000

\* pandas' NaT (a missing date); parsed dates are day numbers >= 1.
NaT == 0

\* Python's None for an optional argument, and a given argument.
None == <<>>
Some(x) == <<x>>

isna(x) == x = NaN

\* A call's outcome: a returned value or a raised exception.
Ok(v) == [status |-> "ok", exc |-> "", value |-> <<v>>]
Raise(e) == [status |-> "raise", exc |-> e, value |-> <<>>]

Range(s) == {s[i] : i \in 1..Len(s)}

Abs(n) == IF n < 0 THEN -n ELSE n

\* round(): the nearest integer to n/d (d > 0), halves to the even neighbour.
RoundDiv(n, d) ==
    LET a == Abs(n)
        q == a \div d
        r == a % d
        m == IF 2 * r > d \/ (2 * r = d /\ q % 2 = 1) THEN q + 1 ELSE q
    IN  IF n < 0 THEN -m ELSE m

-----------------------------------------------------------------------------
(* Bounds of the inputs *)

\* Longest table handed to a call.
MaxRows == 3

\* format_number is tried on every integer this close to each threshold.
FmtDelta == 2

-----------------------------------------------------------------------------
(* load_covid_data *)

default_url == "https://raw.githubusercontent.com/owid/covid-19-data/master/public/data/owid-covid-data.csv"

RawRow(loc, d, tc, td, tv, pv, nc, nd, pop) ==
    [location |-> loc, date |-> d, total_cases |-> tc, total_deaths |-> td,
     total_vaccinations |-> tv, people_vaccinated |-> pv, new_cases |-> nc,
     new_deaths |-> nd, population |-> pop]

\* What the inner try of a load attempt does: pd.read_csv(locator) under the
\* environment env, which maps a locator to <<>> (retrieval or parse fails)
\* or to <<table>>.
read_csv(env, locator) ==
    IF env[locator] = <<>> THEN Raise("read_csv failed") ELSE Ok(env[locator][1])

\* The primary attempt is skipped by this variant: a load that goes straight
\* to the local file.
load_covid_data_no_primary(url, local_file, env) ==
    IF local_file # None /\ local_file[1] # ""
    THEN [ret |-> read_csv(env, local_file[1]), reads |-> <<local_file[1]>>]
    ELSE [ret |-> Raise("Exception: No local file specified and URL failed"),
          reads |-> <<>>]

\* load_covid_data(url, local_file): the outcome and the read_csv calls made.
load_covid_data(url, local_file, env) ==
    LET u == IF url = None THEN default_url ELSE url[1]
        first == read_csv(env, u)
    IN  IF first.status = "ok"
        THEN [ret |-> first, reads |-> <<u>>]
        ELSE IF local_file # None /\ local_file[1] # ""
             THEN [ret |-> read_csv(env, local_file[1]),
                   reads |-> <<u, local_file[1]>>]
             ELSE [ret |-> Raise("Exception: No local file specified and URL failed"),
                   reads |-> <<u>>]

-----------------------------------------------------------------------------
(* format_number *)

Thousand == 1000
Million == 1000000
Billion == 1000000000

\* A Python str is held as the sequence of its characters.
DigitChars == <<"0", "1", "2", "3", "4", "5", "6", "7", "8", "9">>

\* The decimal digits of n >= 0.
RECURSIVE Digits(_)
Digits(n) ==
    IF n < 10 THEN <<DigitChars[n + 1]>>
    ELSE Digits(n \div 10) \o <<DigitChars[(n % 10) + 1]>>

\* f"{num:.0f}" of an integer.
Fmt0f(num) == IF num < 0 THEN <<"-">> \o Digits(-num) ELSE Digits(num)

\* f"{num/unit:.1f}" for num >= unit: one decimal, from the rounded tenths.
Fmt1f(num, unit) ==
    LET t == RoundDiv(num, unit \div 10)
    IN  Digits(t \div 10) \o <<".">> \o Digits(t % 10)

\* The comparisons made strict: a value equal to a threshold falls through.
format_number_strict(num) ==
    IF num > Billion THEN Fmt1f(num, Billion) \o <<"B">>
    ELSE IF num > Million THEN Fmt1f(num, Million) \o <<"M">>
    ELSE IF num > Thousand THEN Fmt1f(num, Thousand) \o <<"K">>
    ELSE Fmt0f(num)

\* format_number(num), lines 106-115.
format_number(num) ==
    IF num >= Billion THEN Fmt1f(num, Billion) \o <<"B">>
    ELSE IF num >= Million THEN Fmt1f(num, Million) \o <<"M">>
    ELSE IF num >= Thousand THEN Fmt1f(num, Thousand) \o <<"K">>
    ELSE Fmt0f(num)

-----------------------------------------------------------------------------
(* Inputs *)

MirrorUrl == "https://example.org/covid.csv"
LocalCsv == "covid.csv"
Locators == {default_url, MirrorUrl, LocalCsv}

RemoteTable == <<RawRow("Kenya", "2020-03-01", 1, 0, NaN, NaN, 1, 0, 50)>>
LocalTable == <<RawRow("Peru", "2020-03-02", 2, 1, NaN, NaN, 2, 1, 30)>>

\* Every environment: each locator fails or yields one of two tables.
Environments == [Locators -> {<<>>, <<RemoteTable>>, <<LocalTable>>}]

UrlArgs == {None, Some(MirrorUrl)}
LocalFileArgs == {None, Some(""), Some(LocalCsv)}

\* Integers around each threshold, the spec's examples, and a negative.
FormatInputs ==
    UNION {(t - FmtDelta)..(t + FmtDelta) : t \in {0, Thousand, Million, Billion}}
    \cup {42, 1500, 999949, 999951, 2100000000}

-----------------------------------------------------------------------------
(* clean_covid_data *)

DefaultFocus == <<"United States", "India", "Kenya", "Germany", "Brazil">>

\* Python's order of the country names that occur (str.__lt__): the position
\* of a name in this alphabetical list.
NameOrder == <<"Brazil", "Chad", "Germany", "India", "Kenya", "Peru", "United States">>
NameRank(n) == CHOOSE i \in 1..Len(NameOrder) : NameOrder[i] = n

\* pd.to_datetime on one date string: the day number of an ISO date, NaT
\* when it cannot be parsed (the caller decides what NaT means).
ParsedDates == [s \in {"2020-03-01", "2020-03-02"} |->
                   IF s = "2020-03-01" THEN 1 ELSE 2]
parse_date(s) == IF s \in DOMAIN ParsedDates THEN ParsedDates[s] ELSE NaT

\* errors="coerce": an unparseable date becomes NaT instead of raising.
to_datetime_coerce(tbl) ==
    Ok([i \in 1..Len(tbl) |-> [tbl[i] EXCEPT !.date = parse_date(tbl[i].date)]])

\* pd.to_datetime(df['date']) with the default errors="raise" (line 70).
to_datetime(tbl) ==
    IF \E i \in 1..Len(tbl) : parse_date(tbl[i].date) = NaT
    THEN Raise("ValueError: unknown datetime string format")
    ELSE Ok([i \in 1..Len(tbl) |-> [tbl[i] EXCEPT !.date = parse_date(tbl[i].date)]])

\* An empty list taken as "no filter": every row is kept.
isin_filter_empty_keeps_all(df, countries) ==
    IF countries = <<>> THEN df
    ELSE SelectSeq(df, LAMBDA r : r.location \in Range(countries))

\* df[df['location'].isin(focus_countries)] (line 67).
isin_filter(df, countries) ==
    SelectSeq(df, LAMBDA r : r.location \in Range(countries))

\* Row a sorts strictly before row b by ['location', 'date'].
RowLess(a, b) ==
    \/ NameRank(a.location) < NameRank(b.location)
    \/ a.location = b.location /\ a.date < b.date

\* Insert r into the sorted table s after every row not greater than it.
RECURSIVE InsertSorted(_, _)
InsertSorted(s, r) ==
    IF s = <<>> THEN <<r>>
    ELSE IF RowLess(r, Head(s)) THEN <<r>> \o s
    ELSE <<Head(s)>> \o InsertSorted(Tail(s), r)

\* sort_values(['location', 'date']).reset_index(drop=True): a stable sort
\* (pandas sorts several keys with a lexsort, which keeps the order of ties).
RECURSIVE SortAcc(_, _)
SortAcc(tbl, acc) ==
    IF tbl = <<>> THEN acc ELSE SortAcc(Tail(tbl), InsertSorted(acc, Head(tbl)))
sort_values(tbl) == SortAcc(tbl, <<>>)

numeric_columns == <<"total_cases", "total_deaths", "total_vaccinations",
                     "people_vaccinated", "new_cases", "new_deaths">>

\* The carried value ignores the group: the last value seen in any country.
RECURSIVE FillCarryNoGroup(_, _, _)
FillCarryNoGroup(tbl, col, last) ==
    IF tbl = <<>> THEN <<>>
    ELSE LET r == Head(tbl)
             v == IF isna(r[col]) THEN last ELSE r[col]
         IN  <<[r EXCEPT ![col] = v]>> \o FillCarryNoGroup(Tail(tbl), col, v)
ffill_ungrouped(tbl, col) == FillCarryNoGroup(tbl, col, NaN)

\* One pass over the rows with the last value seen per country.
RECURSIVE FillCarry(_, _, _)
FillCarry(tbl, col, last) ==
    IF tbl = <<>> THEN <<>>
    ELSE LET r == Head(tbl)
             v == IF isna(r[col]) THEN last[r.location] ELSE r[col]
         IN  <<[r EXCEPT ![col] = v]>>
             \o FillCarry(Tail(tbl), col, [last EXCEPT ![r.location] = v])

\* df.groupby('location')[col] forward-filled (line 82).
ffill(tbl, col) == FillCarry(tbl, col, [n \in Range(NameOrder) |-> NaN])

\* df[col] with the remaining NaN set to 0 (line 84).
fillna0(tbl, col) ==
    [i \in 1..Len(tbl) |->
        [tbl[i] EXCEPT ![col] = IF isna(tbl[i][col]) THEN 0 ELSE tbl[i][col]]]

\* The loop of lines 79-84 over numeric_columns, from column k on.
RECURSIVE impute(_, _)
impute(tbl, k) ==
    IF k > Len(numeric_columns) THEN tbl
    ELSE impute(fillna0(ffill(tbl, numeric_columns[k]), numeric_columns[k]), k + 1)

\* The guard on the denominator left out: the quotient wherever it exists.
death_rate_unguarded(r) ==
    IF r.total_cases = 0 THEN NaN
    ELSE RoundDiv(r.total_deaths * 10000, Abs(r.total_cases))
         * (IF r.total_cases < 0 THEN -1 ELSE 1)

\* np.where(total_cases > 0, (total_deaths / total_cases * 100).round(2), 0),
\* in hundredths of a percent.
death_rate(r) ==
    IF ~isna(r.total_cases) /\ r.total_cases > 0
    THEN IF isna(r.total_deaths) THEN NaN
         ELSE RoundDiv(r.total_deaths * 10000, r.total_cases)
    ELSE 0

\* np.where(population > 0, (people_vaccinated / population * 100).round(2), 0),
\* in hundredths of a percent.
vaccination_rate(r) ==
    IF ~isna(r.population) /\ r.population > 0
    THEN IF isna(r.people_vaccinated) THEN NaN
         ELSE RoundDiv(r.people_vaccinated * 10000, r.population)
    ELSE 0

\* np.where(population > 0, (total_cases / population * 1000000).round(0), 0).
cases_per_million(r) ==
    IF ~isna(r.population) /\ r.population > 0
    THEN IF isna(r.total_cases) THEN NaN
         ELSE RoundDiv(r.total_cases * Million, r.population)
    ELSE 0

CleanRow(r) ==
    [location |-> r.location, date |-> r.date,
     total_cases |-> r.total_cases, total_deaths |-> r.total_deaths,
     total_vaccinations |-> r.total_vaccinations,
     people_vaccinated |-> r.people_vaccinated,
     new_cases |-> r.new_cases, new_deaths |-> r.new_deaths,
     population |-> r.population,
     death_rate |-> death_rate(r),
     vaccination_rate |-> vaccination_rate(r),
     cases_per_million |-> cases_per_million(r)]

\* Lines 86-101: the three derived columns added to every row.
derive(tbl) == [i \in 1..Len(tbl) |-> CleanRow(tbl[i])]

\* clean_covid_data(df, focus_countries).
clean_covid_data(df, focus_countries) ==
    LET fc == IF focus_countries = None THEN DefaultFocus ELSE focus_countries[1]
        df_clean == isin_filter(df, fc)
        dated == to_datetime(df_clean)
    IN  IF dated.status = "raise" THEN dated
        ELSE Ok(derive(impute(sort_values(dated.value[1]), 1)))

-----------------------------------------------------------------------------
(* get_country_summary *)

\* df[df['location'] == country] (lines 129 and 164).
rows_of(df, country) == SelectSeq(df, LAMBDA r : r.location = country)

Min(S) == CHOOSE x \in S : \A y \in S : x <= y
Max(S) == CHOOSE x \in S : \A y \in S : x >= y

\* The comparison widened to >= 0: a row with no case yet counts as one.
first_case_date_from_zero(country_data) ==
    LET D == {country_data[i].date : i \in
                 {j \in 1..Len(country_data) :
                     ~isna(country_data[j].total_cases)
                     /\ country_data[j].total_cases >= 0}}
    IN  IF D = {} THEN NaT ELSE Min(D)

\* country_data[country_data['total_cases'] > 0]['date'].min() (line 140):
\* NaT for an empty selection.
first_case_date(country_data) ==
    LET D == {country_data[i].date : i \in
                 {j \in 1..Len(country_data) :
                     ~isna(country_data[j].total_cases)
                     /\ country_data[j].total_cases > 0}}
    IN  IF D = {} THEN NaT ELSE Min(D)

\* get_country_summary(df, country): iloc[-1] of an empty selection raises.
get_country_summary(df, country) ==
    LET country_data == rows_of(df, country)
    IN  IF country_data = <<>>
        THEN Raise("IndexError: single positional indexer is out-of-bounds")
        ELSE LET latest == country_data[Len(country_data)]
             IN  Ok([country |-> country,
                     total_cases |-> latest.total_cases,
                     total_deaths |-> latest.total_deaths,
                     death_rate |-> latest.death_rate,
                     vaccination_rate |-> latest.vaccination_rate,
                     cases_per_million |-> latest.cases_per_million,
                     population |-> latest.population,
                     first_case_date |-> first_case_date(country_data),
                     latest_date |-> latest.date])

-----------------------------------------------------------------------------
(* generate_insights *)

\* GroupBy.last() on one column of one group: the last value that is not
\* missing, NaN when every value is.
RECURSIVE last_valid(_, _)
last_valid(country_data, col) ==
    IF country_data = <<>> THEN NaN
    ELSE LET v == country_data[Len(country_data)][col]
         IN  IF ~isna(v) THEN v
             ELSE last_valid(SubSeq(country_data, 1, Len(country_data) - 1), col)

\* The group keys in sorted order (groupby sorts its keys).
group_keys(df) ==
    SelectSeq(NameOrder, LAMBDA n : \E i \in 1..Len(df) : df[i].location = n)

\* df.groupby('location').last().reset_index() (line 159), the columns the
\* function reads.
latest_data(df) ==
    LET keys == group_keys(df)
    IN  [k \in 1..Len(keys) |->
            LET g == rows_of(df, keys[k])
            IN  [location |-> keys[k],
                 death_rate |-> last_valid(g, "death_rate"),
                 vaccination_rate |-> last_valid(g, "vaccination_rate"),
                 cases_per_million |-> last_valid(g, "cases_per_million")]]

\* The row of the smallest value: idxmin in place of idxmax.
idxmin(country_data, col) ==
    LET valid == {i \in 1..Len(country_data) : ~isna(country_data[i][col])}
        low == Min({country_data[i][col] : i \in valid})
    IN  Min({i \in valid : country_data[i][col] = low})

\* Series.idxmax() (line 166): NaN skipped, the first row attaining the
\* maximum.
idxmax(country_data, col) ==
    LET valid == {i \in 1..Len(country_data) : ~isna(country_data[i][col])}
        top == Max({country_data[i][col] : i \in valid})
    IN  Min({i \in valid : country_data[i][col] = top})

\* 'new_cases' in country_data.columns and not isna().all() (line 165):
\* the column is there in every table, so some row has a value.
has_peak(country_data) ==
    \E i \in 1..Len(country_data) : ~isna(country_data[i].new_cases)

\* Lines 162-170: the dict of peaks, keyed by the focus countries kept.
peak_cases(df, focus_countries) ==
    LET kept == {c \in Range(focus_countries) : has_peak(rows_of(df, c))}
    IN  [c \in kept |->
            LET country_data == rows_of(df, c)
                peak_idx == idxmax(country_data, "new_cases")
            IN  [date |-> country_data[peak_idx].date,
                 cases |-> country_data[peak_idx].new_cases]]

Perms(n) == {p \in [1..n -> 1..n] : \A i, j \in 1..n : i # j => p[i] # p[j]}

\* Row i may stand before row j in an ascending result.
MayPrecedeAsc(tbl, col, i, j) ==
    IF isna(tbl[i][col]) THEN isna(tbl[j][col]) /\ i < j
    ELSE isna(tbl[j][col]) \/ tbl[i][col] <= tbl[j][col]

\* Row i may stand before row j in the result of a descending sort: a larger
\* value first, NaN last; rows of equal value in either order (the default
\* kind='quicksort' is not stable), the NaN rows in their given order.
MayPrecede(tbl, col, i, j) ==
    IF isna(tbl[i][col]) THEN isna(tbl[j][col]) /\ i < j
    ELSE isna(tbl[j][col]) \/ tbl[i][col] >= tbl[j][col]

\* [['location', col]].sort_values(col, ascending=False).to_dict('records')
\* (lines 175-184): every order the sort may return.
ranking(tbl, col) ==
    { [k \in 1..Len(tbl) |->
          ("location" :> tbl[p[k]].location) @@ (col :> tbl[p[k]][col])] :
        p \in {q \in Perms(Len(tbl)) :
                 \A a, b \in 1..Len(tbl) : a < b => MayPrecede(tbl, col, q[a], q[b])} }

\* generate_insights(df, focus_countries): every dict it may return.
generate_insights(df, focus_countries) ==
    LET latest == latest_data(df)
    IN  { [peak_cases |-> peak_cases(df, focus_countries),
           death_rates |-> dr, vaccination_rates |-> vr,
           cases_per_million |-> cpm] :
            dr \in ranking(latest, "death_rate"),
            vr \in ranking(latest, "vaccination_rate"),
            cpm \in ranking(latest, "cases_per_million") }

-----------------------------------------------------------------------------
(* Inputs of clean_covid_data *)

DataCountries == {"Kenya", "Peru"}
GoodDates == {"2020-03-01", "2020-03-02"}
BadDate == "03/2020?"

\* The numeric part of a raw row: nothing known, everything known, and some
\* of the columns known.
NothingKnown ==
    [total_cases |-> NaN, total_deaths |-> NaN, total_vaccinations |-> NaN,
     people_vaccinated |-> NaN, new_cases |-> NaN, new_deaths |-> NaN,
     population |-> NaN]
Profiles ==
    { NothingKnown,
      [total_cases |-> 2, total_deaths |-> 1, total_vaccinations |-> 5,
       people_vaccinated |-> 1, new_cases |-> 2, new_deaths |-> 1,
       population |-> 4],
      [total_cases |-> 3, total_deaths |-> NaN, total_vaccinations |-> NaN,
       people_vaccinated |-> 2, new_cases |-> 7, new_deaths |-> NaN,
       population |-> 8] }

ProfileRow(loc, d, p) ==
    RawRow(loc, d, p.total_cases, p.total_deaths, p.total_vaccinations,
           p.people_vaccinated, p.new_cases, p.new_deaths, p.population)

\* A row with a date that parses carries any profile; the numbers of a row
\* whose date does not parse are never read.
RawRows ==
    {ProfileRow(loc, d, p) : loc \in DataCountries, d \in GoodDates, p \in Profiles}
    \cup {ProfileRow(loc, BadDate, NothingKnown) : loc \in DataCountries}

\* One-row tables over every sign and absence of the numerators and the
\* denominators of the derived metrics.
RatioTables ==
    { <<RawRow("Kenya", "2020-03-01", tc, td, NaN, pv, NaN, NaN, pop)>> :
        tc \in {NaN, -2, 0, 3}, td \in {NaN, -1, 1},
        pv \in {NaN, -1, 2}, pop \in {NaN, -4, 0, 7} }

\* The default list (it names Kenya, not Peru) and a list naming both, on
\* every table; an empty list and a list of a country no table has, on the
\* one-row tables and the empty one.
FocusArgs == {None, Some(<<"Peru", "Kenya">>)}
NoMatchFocusArgs == {Some(<<>>), Some(<<"Chad">>)}

\* The arguments of a call of clean_covid_data: every table of at most
\* MaxRows raw rows, in every order, with a focus list that may match; and
\* the one-row tables and the empty one with any focus list.
IsCleanInput(a) ==
    \/ \E n \in 0..MaxRows : \E t \in [1..n -> RawRows] : \E f \in FocusArgs :
          a = [df |-> t, focus_countries |-> f]
    \/ \E t \in RatioTables \cup {<<>>} : \E f \in FocusArgs \cup NoMatchFocusArgs :
          a = [df |-> t, focus_countries |-> f]

LoadInputs ==
    {[url |-> u, local_file |-> l, env |-> e] :
        u \in UrlArgs, l \in LocalFileArgs, e \in Environments}

-----------------------------------------------------------------------------
(* Inputs of get_country_summary and generate_insights: the tables
   clean_covid_data returns (passed on by UseCleaned below), and tables a
   caller builds, in which any number may be missing. *)

TableCountries == {"Brazil", "Kenya", "Peru"}

\* The numeric part of a row of a caller's table.
TableProfiles ==
    { [cases |-> NaN, death_rate |-> NaN, vaccination_rate |-> NaN, cases_per_million |-> NaN],
      [cases |-> NaN, death_rate |-> 0, vaccination_rate |-> 2500, cases_per_million |-> 500000],
      [cases |-> 0, death_rate |-> 5000, vaccination_rate |-> 0, cases_per_million |-> 500000],
      [cases |-> 2, death_rate |-> 0, vaccination_rate |-> 2500, cases_per_million |-> 250000],
      [cases |-> 2, death_rate |-> NaN, vaccination_rate |-> NaN, cases_per_million |-> NaN],
      [cases |-> 1, death_rate |-> 5000, vaccination_rate |-> 0, cases_per_million |-> 0] }

\* A known vaccination_rate or cases_per_million is offset by the country, so
\* that in a caller's table only death_rate ties between countries (cleaned
\* tables tie in every metric).
Offset(v, loc) == IF isna(v) THEN NaN ELSE v + NameRank(loc)

TableRow(loc, d, p) ==
    [location |-> loc, date |-> d,
     total_cases |-> p.cases, total_deaths |-> 0,
     total_vaccinations |-> 0, people_vaccinated |-> 0,
     new_cases |-> p.cases, new_deaths |-> 0, population |-> 8,
     death_rate |-> p.death_rate,
     vaccination_rate |-> Offset(p.vaccination_rate, loc),
     cases_per_million |-> Offset(p.cases_per_million, loc)]

SummaryCountries == {"Kenya", "Peru", "Chad"}
InsightFocusArgs == {<<"Kenya", "Peru">>, <<"Chad", "Brazil", "Kenya">>}

\* A caller's table: the rows of a country together and the countries in
\* order, the date of a row its position.
SortedNames(locs) ==
    \A i \in DOMAIN locs, j \in DOMAIN locs :
        i < j => NameRank(locs[i]) <= NameRank(locs[j])
CallerTable(locs, ps) == [i \in DOMAIN locs |-> TableRow(locs[i], i, ps[i])]

-----------------------------------------------------------------------------
(* The state machine: a caller holding the arguments of a call (pc = "call")
   makes it (pc = "done"); the table clean_covid_data returned may then be
   passed to get_country_summary or generate_insights. *)

Pending == [status |-> "pending", exc |-> "", value |-> <<>>]

Init ==
    /\ pc = "call"
    /\ ret = Pending
    /\ reads = <<>>
    /\ \/ op = "load_covid_data" /\ arg \in LoadInputs
       \/ op = "clean_covid_data" /\ IsCleanInput(arg)
       \/ op = "format_number" /\ arg \in {[num |-> n] : n \in FormatInputs}
       \/ /\ op = "get_country_summary"
          /\ \E c \in SummaryCountries : \E n \in 0..MaxRows :
                \E locs \in [1..n -> TableCountries], ps \in [1..n -> TableProfiles] :
                   /\ SortedNames(locs)
                   /\ arg = [df |-> CallerTable(locs, ps), country |-> c]
       \/ /\ op = "generate_insights"
          /\ \E f \in InsightFocusArgs : \E n \in 0..MaxRows :
                \E locs \in [1..n -> TableCountries], ps \in [1..n -> TableProfiles] :
                   /\ SortedNames(locs)
                   /\ arg = [df |-> CallerTable(locs, ps), focus_countries |-> f]

CallLoad ==
    /\ pc = "call" /\ op = "load_covid_data"
    /\ LET r == load_covid_data(arg.url, arg.local_file, arg.env)
       IN  /\ ret' = r.ret
           /\ reads' = r.reads
    /\ pc' = "done"
    /\ UNCHANGED <<op, arg>>

CallClean ==
    /\ pc = "call" /\ op = "clean_covid_data"
    /\ ret' = clean_covid_data(arg.df, arg.focus_countries)
    /\ pc' = "done"
    /\ UNCHANGED <<op, arg, reads>>

CallFormat ==
    /\ pc = "call" /\ op = "format_number"
    /\ ret' = Ok(format_number(arg.num))
    /\ pc' = "done"
    /\ UNCHANGED <<op, arg, reads>>

CallSummary ==
    /\ pc = "call" /\ op = "get_country_summary"
    /\ ret' = get_country_summary(arg.df, arg.country)
    /\ pc' = "done"
    /\ UNCHANGED <<op, arg, reads>>

CallInsights ==
    /\ pc = "call" /\ op = "generate_insights"
    /\ \E r \in generate_insights(arg.df, arg.focus_countries) : ret' = Ok(r)
    /\ pc' = "done"
    /\ UNCHANGED <<op, arg, reads>>

\* The caller passes the cleaned table on.
UseCleaned ==
    /\ pc = "done" /\ op = "clean_covid_data" /\ ret.status = "ok"
    /\ \/ /\ op' = "get_country_summary"
          /\ \E c \in SummaryCountries : arg' = [df |-> ret.value[1], country |-> c]
       \/ /\ op' = "generate_insights"
          /\ \E f \in InsightFocusArgs :
                arg' = [df |-> ret.value[1], focus_countries |-> f]
    /\ pc' = "call"
    /\ ret' = Pending
    /\ UNCHANGED reads

Next ==
    \/ CallLoad
    \/ CallClean
    \/ CallFormat
    \/ CallSummary
    \/ CallInsights
    \/ UseCleaned

Spec == Init /\ [][Next]_vars

-----------------------------------------------------------------------------
(* Properties *)

Returned(f) == pc = "done" /\ op = f
Cleaned == Returned("clean_covid_data") /\ ret.status = "ok"

\* The focus list a call of clean_covid_data works with.
FocusOf(a) == IF a.focus_countries = None THEN DefaultFocus ELSE a.focus_countries[1]

\* The indices of the rows of country e in table t.
RowsIn(t, e) == {i \in 1..Len(t) : t[i].location = e}

(* C1 as stated: for a non-empty focus list, every row clean returns has
   death_rate, vaccination_rate and cases_per_million defined and >= 0, and 0
   whenever the denominator (total_cases, or population) is 0, negative or
   missing. *)
C1_NonNegative ==
    (Cleaned /\ FocusOf(arg) # <<>>) =>
        \A i \in 1..Len(ret.value[1]) :
            LET r == ret.value[1][i]
            IN  /\ ~isna(r.death_rate) /\ r.death_rate >= 0
                /\ ~isna(r.vaccination_rate) /\ r.vaccination_rate >= 0
                /\ ~isna(r.cases_per_million) /\ r.cases_per_million >= 0
                /\ (isna(r.total_cases) \/ r.total_cases <= 0) => r.death_rate = 0
                /\ (isna(r.population) \/ r.population <= 0) =>
                       r.vaccination_rate = 0 /\ r.cases_per_million = 0

(* C1 amended: every row clean returns has the three derived metrics
   defined; each is 0 whenever its denominator in that row is 0, negative or
   missing; and each is >= 0 whenever its numerator in that row (total_deaths,
   people_vaccinated, total_cases, as imputed) is >= 0.  A negative numerator
   over a positive denominator is not covered: the rate may be negative. *)
C1_DefinedAndSigned ==
    Cleaned =>
        \A i \in 1..Len(ret.value[1]) :
            LET r == ret.value[1][i]
            IN  /\ ~isna(r.death_rate)
                /\ ~isna(r.vaccination_rate)
                /\ ~isna(r.cases_per_million)
                /\ (isna(r.total_cases) \/ r.total_cases <= 0) => r.death_rate = 0
                /\ (isna(r.population) \/ r.population <= 0) =>
                       r.vaccination_rate = 0 /\ r.cases_per_million = 0
                /\ (~isna(r.total_cases) /\ r.total_cases > 0) =>
                       (r.total_deaths >= 0 => r.death_rate >= 0)
                /\ (~isna(r.population) /\ r.population > 0) =>
                       /\ r.people_vaccinated >= 0 => r.vaccination_rate >= 0
                       /\ r.total_cases >= 0 => r.cases_per_million >= 0

\* A cleaned row with a positive rate beside a row whose population is
\* missing or whose total_cases is not positive.
C1_Witness ==
    /\ Cleaned
    /\ \E i \in 1..Len(ret.value[1]) :
          LET r == ret.value[1][i]
          IN  r.total_cases > 0 /\ r.population > 0 /\ r.death_rate > 0
              /\ r.vaccination_rate > 0 /\ r.cases_per_million > 0
    /\ \E i \in 1..Len(ret.value[1]) :
          isna(ret.value[1][i].population) /\ ret.value[1][i].total_cases = 0

\* The place of the j-th input row of country e among that country's rows
\* once they are in ascending date order, rows of one date in input order.
DateRank(t, e, j) ==
    1 + Cardinality({k \in RowsIn(t, e) :
                        \/ parse_date(t[k].date) < parse_date(t[j].date)
                        \/ parse_date(t[k].date) = parse_date(t[j].date) /\ k < j})

\* The input rows of country e that come before row j in that order and
\* have a value in column col.
EarlierKnown(t, e, j, col) ==
    {k \in RowsIn(t, e) : DateRank(t, e, k) < DateRank(t, e, j) /\ ~isna(t[k][col])}

\* What the claim says row j carries in column col.
Carried(t, e, j, col) ==
    IF ~isna(t[j][col]) THEN t[j][col]
    ELSE IF EarlierKnown(t, e, j, col) = {} THEN 0
    ELSE LET k == CHOOSE k \in EarlierKnown(t, e, j, col) :
                     \A m \in EarlierKnown(t, e, j, col) :
                         DateRank(t, e, m) <= DateRank(t, e, k)
         IN  t[k][col]

(* C2: in the output of clean, per country in ascending date order and per
   imputed column, a row whose input value was missing carries the value of
   the nearest earlier row of the same country that had one, and 0 only when
   no earlier row of that country had one; never a later row's value or
   another country's. *)
C2_ForwardFill ==
    Cleaned =>
        \A e \in Range(FocusOf(arg)) :
            LET out == rows_of(ret.value[1], e)
            IN  /\ Len(out) = Cardinality(RowsIn(arg.df, e))
                /\ \A j \in RowsIn(arg.df, e) : \A c \in 1..Len(numeric_columns) :
                      out[DateRank(arg.df, e, j)][numeric_columns[c]]
                          = Carried(arg.df, e, j, numeric_columns[c])

\* A country with a row whose total_cases is missing before any known one,
\* and a row whose total_deaths is missing after a known one, the rows given
\* out of date order.
C2_Witness ==
    /\ Cleaned
    /\ \E e \in Range(FocusOf(arg)) :
          /\ \E j \in RowsIn(arg.df, e) :
                /\ isna(arg.df[j].total_cases)
                /\ EarlierKnown(arg.df, e, j, "total_cases") = {}
          /\ \E j \in RowsIn(arg.df, e) :
                /\ isna(arg.df[j].total_deaths)
                /\ EarlierKnown(arg.df, e, j, "total_deaths") # {}
                /\ \E k \in RowsIn(arg.df, e) : k > j /\ DateRank(arg.df, e, k) < DateRank(arg.df, e, j)

\* The locator load tries first, and whether a fallback was given.
Primary(a) == IF a.url = None THEN default_url ELSE a.url[1]
FallbackGiven(a) == a.local_file # None /\ a.local_file[1] # ""
Succeeds(a, locator) == a.env[locator] # <<>>

(* C3: load attempts the primary locator first and returns its dataset
   without touching the fallback when it succeeds; when it fails and a
   fallback is given, load attempts the fallback and returns its dataset if
   that succeeds; load fails only when the primary failed and the fallback
   failed too or was not given, and then returns no dataset. *)
C3_LoadFallback ==
    Returned("load_covid_data") =>
        /\ Len(reads) >= 1 /\ reads[1] = Primary(arg)
        /\ Succeeds(arg, Primary(arg)) =>
              reads = <<Primary(arg)>> /\ ret = Ok(arg.env[Primary(arg)][1])
        /\ (~Succeeds(arg, Primary(arg)) /\ FallbackGiven(arg)) =>
              /\ reads = <<Primary(arg), arg.local_file[1]>>
              /\ Succeeds(arg, arg.local_file[1]) =>
                    ret = Ok(arg.env[arg.local_file[1]][1])
        /\ ret.status = "raise" <=>
              /\ ~Succeeds(arg, Primary(arg))
              /\ ~FallbackGiven(arg) \/ ~Succeeds(arg, arg.local_file[1])
        /\ ret.status = "raise" => ret.value = <<>>
        /\ (~Succeeds(arg, Primary(arg)) /\ ~FallbackGiven(arg)) =>
              reads = <<Primary(arg)>>

\* The primary failed and the fallback's table, another one than the
\* primary's locator could have given, was returned.
C3_Witness ==
    /\ Returned("load_covid_data")
    /\ arg.url # None
    /\ ~Succeeds(arg, Primary(arg))
    /\ FallbackGiven(arg)
    /\ ret = Ok(LocalTable)
    /\ Len(reads) = 2

\* The input rows of the focus countries, and those whose date parses.
FocusRows(a) == {i \in 1..Len(a.df) : a.df[i].location \in Range(FocusOf(a))}
Unparseable(a) == {i \in FocusRows(a) : parse_date(a.df[i].date) = NaT}

\* How many rows of table t are of country e on day d.
CountOf(t, e, d) == Cardinality({i \in 1..Len(t) : t[i].location = e /\ t[i].date = d})

(* C4 as stated: when some records of the focus countries have an
   unparseable date, clean does not fail: it returns every focus record with
   a parseable date and none of the others. *)
C4_DropsBadDates ==
    (Returned("clean_covid_data") /\ Unparseable(arg) # {}) =>
        /\ ret.status = "ok"
        /\ Len(ret.value[1]) = Cardinality(FocusRows(arg) \ Unparseable(arg))

(* C4 amended: clean fails, returning no dataset, exactly when some record
   of the focus countries has an unparseable date (the date conversion
   raises; records of other countries are filtered out before it); when
   every focus record's date parses, the output has one row for each focus
   record, under its country and parsed date. *)
C4_RaisesOnBadDate ==
    Returned("clean_covid_data") =>
        /\ ret.status = "raise" <=> Unparseable(arg) # {}
        /\ ret.status = "raise" => ret.value = <<>>
        /\ ret.status = "ok" =>
              /\ Len(ret.value[1]) = Cardinality(FocusRows(arg))
              /\ \A i \in FocusRows(arg) :
                    CountOf(ret.value[1], arg.df[i].location, parse_date(arg.df[i].date))
                      = Cardinality({k \in FocusRows(arg) :
                                        /\ arg.df[k].location = arg.df[i].location
                                        /\ arg.df[k].date = arg.df[i].date})

\* A call that raised on a table with a focus record whose date parses beside
\* one whose date does not.
C4_Witness ==
    /\ Returned("clean_covid_data")
    /\ ret.status = "raise"
    /\ Unparseable(arg) # {}
    /\ FocusRows(arg) \ Unparseable(arg) # {}

\* No country of the focus list occurs in the input.
NoFocusMatch(a) == FocusRows(a) = {}

(* C5 as stated: clean with an empty focus list fails (EmptyFocusSet) and
   returns no dataset, whereas with a non-empty list none of whose countries
   occur in the input it returns an empty dataset without failing. *)
C5_EmptyFocusFails ==
    Returned("clean_covid_data") =>
        /\ FocusOf(arg) = <<>> => ret.status = "raise" /\ ret.value = <<>>
        /\ (FocusOf(arg) # <<>> /\ NoFocusMatch(arg)) => ret = Ok(<<>>)

(* C5 amended: clean with an empty focus list does not fail; like clean
   with a non-empty list none of whose countries occur in the input, it
   returns an empty dataset. *)
C5_NoMatchIsEmpty ==
    (Returned("clean_covid_data") /\ NoFocusMatch(arg)) => ret = Ok(<<>>)

\* An empty focus list on a table that has rows.
C5_Witness ==
    /\ Returned("clean_covid_data")
    /\ arg.focus_countries = Some(<<>>)
    /\ arg.df # <<>>
    /\ ret = Ok(<<>>)

(* C6: summarize fails whenever the country has no row in the table, and
   otherwise returns a summary whose first_case_date is the least date among
   the country's rows with total_cases > 0, or the missing-date sentinel (no
   failure) when the country has no such row. *)
C6_SummaryFirstCase ==
    Returned("get_country_summary") =>
        LET rows == RowsIn(arg.df, arg.country)
            pos == {i \in rows : ~isna(arg.df[i].total_cases) /\ arg.df[i].total_cases > 0}
        IN  /\ rows = {} <=> ret.status = "raise"
            /\ ret.status = "ok" =>
                  LET fcd == ret.value[1].first_case_date
                  IN  IF pos = {} THEN fcd = NaT
                      ELSE /\ \E i \in pos : arg.df[i].date = fcd
                           /\ \A i \in pos : fcd <= arg.df[i].date

\* The country's first row has no case yet and a later row has: the date
\* returned is the later row's.
C6_Witness ==
    /\ Returned("get_country_summary")
    /\ ret.status = "ok"
    /\ \E i \in RowsIn(arg.df, arg.country) :
          arg.df[i].total_cases = 0 /\ arg.df[i].date < ret.value[1].first_case_date

Rankings == <<"death_rates", "vaccination_rates", "cases_per_million">>
MetricOf == [death_rates |-> "death_rate", vaccination_rates |-> "vaccination_rate",
             cases_per_million |-> "cases_per_million"]

\* The ranking named k in the returned insights, and the metric it ranks.
RankingOf(k) == ret.value[1][Rankings[k]]
ValueAt(k, i) == RankingOf(k)[i][MetricOf[Rankings[k]]]

(* C7 as stated: each ranking is in descending order of its metric, and two
   countries of equal metric appear in ascending order of name. *)
C7_TiesByName ==
    Returned("generate_insights") =>
        \A k \in 1..3 : \A i, j \in 1..Len(RankingOf(k)) :
            i < j =>
               /\ isna(ValueAt(k, i)) => isna(ValueAt(k, j))
               /\ (~isna(ValueAt(k, i)) /\ ~isna(ValueAt(k, j))) =>
                     ValueAt(k, i) >= ValueAt(k, j)
               /\ ValueAt(k, i) = ValueAt(k, j) =>
                     NameRank(RankingOf(k)[i].location) < NameRank(RankingOf(k)[j].location)

(* C7 amended: each ranking lists every country of the table once, in
   descending order of its metric, a country whose metric is missing after
   all others; the order of two countries of equal metric is whatever the
   sort leaves (its default algorithm is not stable), not necessarily
   ascending by name. *)
C7_Descending ==
    Returned("generate_insights") =>
        \A k \in 1..3 :
            /\ \A i, j \in 1..Len(RankingOf(k)) :
                  i < j =>
                     /\ isna(ValueAt(k, i)) => isna(ValueAt(k, j))
                     /\ (~isna(ValueAt(k, i)) /\ ~isna(ValueAt(k, j))) =>
                           ValueAt(k, i) >= ValueAt(k, j)
                     /\ RankingOf(k)[i].location # RankingOf(k)[j].location
            /\ {RankingOf(k)[i].location : i \in 1..Len(RankingOf(k))}
                  = {arg.df[i].location : i \in 1..Len(arg.df)}

\* A ranking of three countries: two of different death_rate, and two of
\* equal death_rate listed in descending order of name.
C7_Witness ==
    /\ Returned("generate_insights")
    /\ Len(RankingOf(1)) = 3
    /\ ValueAt(1, 1) > ValueAt(1, 3) /\ ~isna(ValueAt(1, 3))
    /\ \E i \in 1..2 :
          /\ ValueAt(1, i) = ValueAt(1, i + 1)
          /\ NameRank(RankingOf(1)[i].location) > NameRank(RankingOf(1)[i + 1].location)

\* The known new_cases values of country e in table t.
KnownNewCases(t, e) == {t[i].new_cases : i \in {j \in RowsIn(t, e) : ~isna(t[j].new_cases)}}

(* C8: a focus country of the table whose new_cases is missing in all of
   its rows has no entry in peak_cases yet exactly one entry in each of the
   three rankings; every other focus country of the table has a peak_cases
   entry whose value is the greatest new_cases of its rows and whose date is
   the date of a row with that value. *)
C8_PeakCases ==
    Returned("generate_insights") =>
        \A e \in Range(arg.focus_countries) :
            RowsIn(arg.df, e) # {} =>
                IF KnownNewCases(arg.df, e) = {}
                THEN /\ e \notin DOMAIN ret.value[1].peak_cases
                     /\ \A k \in 1..3 :
                           Cardinality({i \in 1..Len(RankingOf(k)) :
                                           RankingOf(k)[i].location = e}) = 1
                ELSE /\ e \in DOMAIN ret.value[1].peak_cases
                     /\ LET peak == ret.value[1].peak_cases[e]
                        IN  /\ peak.cases \in KnownNewCases(arg.df, e)
                            /\ \A v \in KnownNewCases(arg.df, e) : v <= peak.cases
                            /\ \E i \in RowsIn(arg.df, e) :
                                  arg.df[i].date = peak.date
                                  /\ arg.df[i].new_cases = peak.cases

\* One focus country with no new_cases at all, ranked but without a peak,
\* beside one whose peak is not its first row.
C8_Witness ==
    /\ Returned("generate_insights")
    /\ \E e \in Range(arg.focus_countries) :
          /\ RowsIn(arg.df, e) # {}
          /\ KnownNewCases(arg.df, e) = {}
          /\ e \notin DOMAIN ret.value[1].peak_cases
    /\ \E e \in DOMAIN ret.value[1].peak_cases :
          \E i \in RowsIn(arg.df, e) :
              /\ ~isna(arg.df[i].new_cases)
              /\ arg.df[i].new_cases < ret.value[1].peak_cases[e].cases

(* C9: the value listed for a country in each ranking is the metric of that
   country's last row, the row summarize takes as latest, even when that
   row's metric is missing while an earlier row has one. *)
C9_LastRowValue ==
    Returned("generate_insights") =>
        \A k \in 1..3 : \A i \in 1..Len(RankingOf(k)) :
            LET rows == rows_of(arg.df, RankingOf(k)[i].location)
            IN  ValueAt(k, i) = rows[Len(rows)][MetricOf[Rankings[k]]]

\* The characters of the returned string.
Rendered == ret.value[1]
Suffix == Rendered[Len(Rendered)]

(* C10: format_number picks its suffix by the first threshold n meets with
   >=, in the order 10^9 (B), 10^6 (M), 10^3 (K): every n >= 10^9 ends in B,
   every n in [10^6, 10^9) in M (1000000 is "1.0M"), every n in [10^3, 10^6)
   in K, and every n < 10^3 is a plain integer string. *)
C10_FormatSuffix ==
    Returned("format_number") =>
        /\ arg.num >= Billion => Suffix = "B"
        /\ (arg.num >= Million /\ arg.num < Billion) => Suffix = "M"
        /\ (arg.num >= Thousand /\ arg.num < Million) => Suffix = "K"
        /\ arg.num < Thousand =>
              \A i \in 1..Len(Rendered) :
                  Rendered[i] \in Range(DigitChars) \/ (i = 1 /\ Rendered[i] = "-")
        /\ arg.num = Million => Rendered = <<"1", ".", "0", "M">>
        /\ arg.num = 1500 => Rendered = <<"1", ".", "5", "K">>
        /\ arg.num = 42 => Rendered = <<"4", "2">>

\* Exactly one million, rendered with M.
C10_Witness ==
    /\ Returned("format_number")
    /\ arg.num = Million
    /\ Suffix = "M"

====
